---- MODULE Spec2Model ----
(***************************************************************************)
(* The task editing session of frontend/components/Task/TaskModal.tsx:     *)
(* the React state of the modal, its effects, its event handlers, and the  *)
(* asynchronous fetches and timers it starts.                              *)
(*                                                                         *)
(* One action is one turn of the UI event loop: an event handler (or a     *)
(* promise continuation, or a timer callback) runs to its end, React       *)
(* renders, and the effects whose dependencies changed run.  Handlers read *)
(* the state of the last render (their closure), which is the unprimed     *)
(* state of the action.                                                    *)
(***************************************************************************)
EXTENDS Integers, Sequences, FiniteSets, TLC

\* ------------------------------------------------------------------ bounds
\* Fetches of one kind that may be in flight at the same time.
MaxInFlight == 2
\* Pending 300 ms timers of handleClose.
MaxTimers == 2
\* Calls of onParentRecurrenceChange a child component makes in one event,
\* before the modal renders again.
MaxBatch == 2
\* Tags the tag input holds at most.
MaxTags == 2
\* Numeric priorities run from -MaxPriority to MaxPriority.
MaxPriority == 50

\* ------------------------------------------------------------------ data
\* parentTask is Task | null.
Null == <<>>
Some(x) == <<x>>

\* Tasks 2 and 4 are generated instances of the recurring tasks 3 and 5, which
\* have no recurring_parent_id (0 stands for an absent id, falsy as in the source).
\* TaskIds are the tasks the surrounding UI opens the modal on.
TaskIds == {2, 3, 4}
recurring_parent_id(id) == IF id \in {2, 4} THEN id + 1 ELSE 0

Names == {"a", "b"}
TagNames == {"x", "y"}
\* The values the status control passes to onStatusChange.
Statuses == {"not_started", "in_progress", "done"}
\* priorityNames of getPriorityString, the values of PriorityType.
priorityNames == << "low", "medium", "high" >>
\* What getPriorityString is called with: a number, a PriorityType or undefined.
Priorities ==
    { [type |-> "number", num |-> n, str |-> ""] : n \in (0 - MaxPriority)..MaxPriority }
    \cup { [type |-> "string", num |-> 0, str |-> priorityNames[i]] : i \in 1..3 }
    \cup { [type |-> "undefined", num |-> 0, str |-> ""] }
\* The id of a task that was not saved yet: formData.id is not set.
NewTaskId == 0
\* What the tag input passes to onTagsChange: names in order, duplicates included.
TagLists == UNION { [1..n -> TagNames] : n \in 0..MaxTags }
\* tags.map((name) => ({ name }))
TagObjects(ts) == [i \in 1..Len(ts) |-> [name |-> ts[i]]]
\* task.tags?.map((tag) => tag.name) || []
TagNamesOf(objs) == [i \in 1..Len(objs) |-> objs[i].name]
RecFields == {"recurrence_type", "recurrence_interval"}
FieldValues(f) == IF f = "recurrence_type" THEN {"daily", "weekly"} ELSE {2}

\* The Task the surrounding UI passes as the task prop, and the Task the
\* persistence layer returns for fetchTaskById(id).
Task(id) ==
    [ id |-> id,
      name |-> IF id = 4 THEN "" ELSE "a",
      tags |-> IF id = 2 THEN TagObjects(<< "x" >>) ELSE << >>,
      recurring_parent_id |-> recurring_parent_id(id),
      recurrence_type |-> IF id \in {3, 5} THEN "daily" ELSE "none",
      recurrence_interval |-> 1,
      status |-> "not_started",
      today |-> FALSE,
      update_parent_recurrence |-> FALSE ]

\* One call of onParentRecurrenceChange / onRecurrenceChange: a field and a value.
Edits == UNION { { [field |-> f, value |-> v] : v \in FieldValues(f) } : f \in RecFields }
\* The calls one event makes, in order.
Batches == UNION { [1..n -> Edits] : n \in 1..MaxBatch }

VARIABLES
    \* props (projects and the callbacks hold no state of the modal)
    isOpen, task,
    \* React state
    formData, parentTask, parentTaskLoading, taskIntelligenceEnabled, isClosing,
    tags, taskAnalysis, tagsLoaded, localAvailableTags,
    \* asynchronous work in flight
    parentFetches, flagFetches, closeTimers, tagFetches,
    \* the surrounding UI and the persistence layer
    saveOutcome, toasts,
    \* what the last turn did: the event, then the callbacks it called, in order
    lastEvent,
    \* the argument of onSave, when the last turn called it (Null otherwise)
    payload,
    \* per recurrence field, Some(the value last set through
    \* handleParentRecurrenceChange in this session); Null when there is none, or
    \* when the field was edited through another handler since
    proposed,
    \* the component is mounted
    mounted,
    \* the document: body.style.overflow and the listeners the modal has registered
    bodyOverflow, mousedownListeners, keydownListeners,
    \* the delete confirmation and the onDelete calls in flight
    showConfirmDialog, deletes,
    \* the priority handed to getPriorityString at the last render of the
    \* priority control, and what it returned
    priority, priorityString

vars == << isOpen, task, formData, parentTask,
           parentTaskLoading, taskIntelligenceEnabled, isClosing, tags, taskAnalysis,
           tagsLoaded, localAvailableTags, parentFetches, flagFetches, closeTimers,
           tagFetches, saveOutcome, toasts, lastEvent, payload, proposed, mounted,
           bodyOverflow, mousedownListeners, keydownListeners, showConfirmDialog,
           deletes, priority, priorityString >>

\* The modal's footprint in the document.
domVars == << bodyOverflow, mousedownListeners, keydownListeners >>

\* The state of the delete confirmation.
deleteVars == << showConfirmDialog, deletes >>

\* The state of the priority control.
priorityVars == << priority, priorityString >>

\* The state of the tag loader.
tagLoadVars == << tagsLoaded, localAvailableTags, tagFetches >>

NoProposal == [f \in RecFields |-> Null]

Remove(s, i) == [j \in 1..(Len(s) - 1) |-> IF j < i THEN s[j] ELSE s[j + 1]]

\* ------------------------------------------------------------------ effects
\* Mutant of ShouldFetchParent: the test of recurring_parent_id is lost.
ShouldFetchParentWhenOpen(t, open) == open

\* useEffect[task, projects, isOpen, taskIntelligenceEnabled]: the condition under
\* which fetchParentTask fetches.
ShouldFetchParent(t, open) == recurring_parent_id(t) # 0 /\ open

\* fetchParentTask up to its await: the loading flag and the request, or the reset
\* of parentTask.
fetchParentTask(t, open) ==
    IF ShouldFetchParent(t, open)
    THEN /\ parentTaskLoading' = TRUE
         /\ parentFetches' = Append(parentFetches, recurring_parent_id(t))
         /\ UNCHANGED parentTask
    ELSE /\ parentTask' = Null
         /\ UNCHANGED << parentTaskLoading, parentFetches >>

\* analyzeTaskName of utils/taskIntelligenceService: the suggestions for a title.
analyzeTaskName(name) ==
    [ title |-> name, suggestions |-> IF name = "b" THEN {"due_date"} ELSE {} ]

\* Mutant of LoadAnalysis: the effect does not look at the flag.
LoadAnalysisUnflagged(t, open, enabled) ==
    IF open /\ Task(t).name # "" THEN Some(analyzeTaskName(Task(t).name)) ELSE Null

\* The effect's setTaskAnalysis: enabled is the taskIntelligenceEnabled of the
\* render the effect runs after.
LoadAnalysis(t, open, enabled) ==
    IF open /\ Task(t).name # "" /\ enabled
    THEN Some(analyzeTaskName(Task(t).name))
    ELSE Null

\* The whole effect, run after a render in which one of its dependencies changed.
LoadEffect(t, open, enabled) ==
    /\ formData' = Task(t)
    /\ tags' = TagNamesOf(Task(t).tags)
    /\ taskAnalysis' = LoadAnalysis(t, open, enabled)
    /\ fetchParentTask(t, open)

\* The effect would start a fetch: there must be room for it.
LoadRoom(t, open) == ShouldFetchParent(t, open) => Len(parentFetches) < MaxInFlight

\* Mutant of fetchTaskIntelligenceSetting: the flag is fetched on every change of
\* isOpen.
fetchTaskIntelligenceSettingUngated(open) == flagFetches' = flagFetches + 1

\* useEffect[isOpen]: fetchTaskIntelligenceSetting up to its await.
fetchTaskIntelligenceSetting(open) ==
    IF open THEN flagFetches' = flagFetches + 1 ELSE UNCHANGED flagFetches

\* Mutant of CleanupOverflow: the cleanup leaves the body's overflow as it is.
CleanupOverflowKept == bodyOverflow

\* useEffect[isOpen] (click outside, body scroll): document.body.style.overflow
\* after the effect's body ran.
EffectOverflow(open) == IF open THEN "hidden" ELSE "unset"

\* The effect's cleanup: document.body.style.overflow after it.
CleanupOverflow == "unset"

\* The listeners registered after the cleanup of the run before (which removes
\* the listener that run added, if it added one) and the body of this run.
ListenersAfter(n, wasOpen, open) ==
    n - (IF wasOpen THEN 1 ELSE 0) + (IF open THEN 1 ELSE 0)

\* The two effects on [isOpen] that touch the document, run after a render in
\* which isOpen changed from wasOpen to open.
DocumentEffects(wasOpen, open) ==
    /\ bodyOverflow' = EffectOverflow(open)
    /\ mousedownListeners' = ListenersAfter(mousedownListeners, wasOpen, open)
    /\ keydownListeners' = ListenersAfter(keydownListeners, wasOpen, open)

\* useEffect[isOpen, tagsLoaded]: loadTags up to its await.
loadTags(open, loaded) ==
    IF open /\ ~loaded THEN tagFetches' = tagFetches + 1 ELSE UNCHANGED tagFetches

\* The effect would start a fetch: there must be room for it.
TagsRoom(open, loaded) == (open /\ ~loaded) => tagFetches < MaxInFlight

\* What fetchTags resolves with: an array of tags, or something else.
TagResults == { [isArray |-> a, value |-> v] : a \in BOOLEAN, v \in {<< >>, << "x" >>} }

\* Array.isArray(fetchedTags) ? fetchedTags : []
safeTagsArray(fetchedTags) == IF fetchedTags.isArray THEN fetchedTags.value ELSE << >>

\* Mutant of ParentFetchError: the catch branch does not reset parentTask.
ParentFetchErrorKeeps == parentTask

\* The continuations of fetchParentTask: what setParentTask receives.
ParentFetched(id) == Some(Task(id))
ParentFetchError == Null

\* Mutant of FlagFetchError: the catch branch keeps the current value.
FlagFetchErrorKeeps == taskIntelligenceEnabled

\* The continuations of fetchTaskIntelligenceSetting: what
\* setTaskIntelligenceEnabled receives.
FlagFetched(enabled) == enabled
FlagFetchError == TRUE

\* ------------------------------------------------------------------ handlers
\* Mutant of ParentSnapshot: the local parent snapshot is left as loaded.
ParentSnapshotKept(pt, e) == pt

\* handleParentRecurrenceChange, its setParentTask: pt is the parentTask of the
\* render the handler was created in.
ParentSnapshot(pt, e) ==
    IF pt # Null THEN Some([pt[1] EXCEPT ![e.field] = e.value]) ELSE pt

\* handleParentRecurrenceChange, its setFormData updater.
ParentEditForm(prev, e) ==
    [prev EXCEPT ![e.field] = e.value, !.update_parent_recurrence = TRUE]

\* The updaters queued by the calls of one event, applied in order.
RECURSIVE ParentEditForms(_, _)
ParentEditForms(prev, es) ==
    IF es = << >> THEN prev
    ELSE ParentEditForms(ParentEditForm(prev, Head(es)), Tail(es))

\* Every call of one event sets parentTask from the same render's parentTask: the
\* last call's value is the one React keeps.
ParentSnapshots(pt, es) == ParentSnapshot(pt, es[Len(es)])

RECURSIVE Propose(_, _)
Propose(p, es) ==
    IF es = << >> THEN p
    ELSE Propose([p EXCEPT ![Head(es).field] = Some(Head(es).value)], Tail(es))

\* Mutant of RecurrenceEditForm: a plain edit marks the parent for update too.
RecurrenceEditFormMarksParent(prev, e) ==
    [prev EXCEPT ![e.field] = e.value, !.update_parent_recurrence = TRUE]

\* handleRecurrenceChange, its setFormData updater.
RecurrenceEditForm(prev, e) == [prev EXCEPT ![e.field] = e.value]

\* handleChange, its setFormData updater, for the title input.
ChangeForm(prev, value) == [prev EXCEPT !.name = value]

\* handleChange, its setTaskAnalysis for the title input: enabled is the
\* taskIntelligenceEnabled of the render the handler was created in.
ChangeAnalysis(prev, value, enabled) ==
    IF enabled THEN Some(analyzeTaskName(value)) ELSE prev

\* handleTagsChange, its setFormData updater.
TagsChangeForm(prev, newTags) == [prev EXCEPT !.tags = TagObjects(newTags)]

\* Mutant of SubmitPayload: a tag name is sent once, however often it is listed.
SubmitPayloadDistinctTags(fd, ts) ==
    LET RECURSIVE Distinct(_)
        Distinct(s) ==
            IF s = << >> THEN << >>
            ELSE LET r == Distinct(SubSeq(s, 1, Len(s) - 1))
                 IN  IF \E i \in 1..Len(r) : r[i] = s[Len(s)] THEN r
                     ELSE Append(r, s[Len(s)])
    IN  [fd EXCEPT !.tags = TagObjects(Distinct(ts))]

\* Mutant of SubmitPayload: the save of a generated instance is addressed to its
\* recurring task.
SubmitPayloadToParent(fd, ts) ==
    [fd EXCEPT !.tags = TagObjects(ts),
               !.id = IF fd.recurring_parent_id # 0 THEN fd.recurring_parent_id ELSE fd.id]

\* handleSubmit: the argument of onSave.
SubmitPayload(fd, ts) == [fd EXCEPT !.tags = TagObjects(ts)]

\* Mutant of getPriorityString: a number out of range is clamped to the nearest name.
getPriorityStringClamped(p) ==
    IF p.type = "number"
    THEN IF p.num <= 0 THEN "low" ELSE IF p.num >= 2 THEN "high" ELSE "medium"
    ELSE IF p.type = "string" THEN p.str ELSE "medium"

\* getPriorityString: priorityNames[priority] || 'medium' for a number,
\* priority || 'medium' otherwise.
getPriorityString(p) ==
    IF p.type = "number"
    THEN IF p.num \in 0..2 THEN priorityNames[p.num + 1] ELSE "medium"
    ELSE IF p.type = "string" /\ p.str # "" THEN p.str ELSE "medium"

\* Mutant of StatusForm: a status other than in_progress takes the task off today.
StatusFormTodayFollows(fd, value) ==
    [fd EXCEPT !.status = value, !.today = (value = "in_progress")]

\* onStatusChange: updatedData, from the formData of the render the handler was
\* created in.
StatusForm(fd, value) ==
    IF value = "in_progress"
    THEN [fd EXCEPT !.status = value, !.today = TRUE]
    ELSE [fd EXCEPT !.status = value]

\* handleSubmit: the toasts after it, when onSave returned.
SubmitToasts(ts) == ts \cup {"success"}

\* Mutant of onEditParent: the control is passed whether a parent is loaded or not.
onEditParentAlways(pt) == TRUE

\* TaskRecurrenceSection's prop onEditParent: TRUE when the handler is passed,
\* FALSE when the prop is undefined.
onEditParent(pt) == pt # Null

\* TaskRecurrenceSection's prop onParentRecurrenceChange, likewise.
onParentRecurrenceChange(pt) == pt # Null

\* Mutant of EditParentCalls: onClose is called first.
EditParentCallsCloseFirst(pt, provided) ==
    IF pt # Null /\ provided THEN << "onClose", "onEditParentTask" >> ELSE << >>

\* handleEditParent: the callbacks it calls, in order.
EditParentCalls(pt, provided) ==
    IF pt # Null /\ provided THEN << "onEditParentTask", "onClose" >> ELSE << >>

Has(s, x) == \E i \in 1..Len(s) : s[i] = x
\* How many times the turn called x.
Calls(s, x) == Cardinality({ i \in 1..Len(s) : s[i] = x })

\* ------------------------------------------------------------------ initial state
\* The modal is mounted closed; its effects have run once.
Init ==
    /\ isOpen = FALSE
    /\ task = 3
    /\ formData = Task(task)
    /\ parentTask = Null
    /\ parentTaskLoading = FALSE
    /\ taskIntelligenceEnabled = TRUE
    /\ isClosing = FALSE
    /\ tags = TagNamesOf(Task(task).tags)
    /\ taskAnalysis = Null
    /\ tagsLoaded = FALSE
    /\ localAvailableTags = << >>
    /\ tagFetches = 0
    /\ parentFetches = << >>
    /\ flagFetches = 0
    /\ closeTimers = 0
    /\ saveOutcome = "none"
    /\ toasts = {}
    /\ lastEvent = << "mount" >>
    /\ payload = Null
    /\ proposed = NoProposal
    /\ mounted = TRUE
    /\ bodyOverflow = EffectOverflow(isOpen)
    /\ mousedownListeners = 0
    /\ keydownListeners = 0
    /\ showConfirmDialog = FALSE
    /\ deletes = 0
    /\ priority = Null
    /\ priorityString = Null

\* ------------------------------------------------------------------ the surrounding UI
\* The surrounding UI opens the modal on task t.
OpenSession(t) ==
    /\ ~isOpen
    /\ LoadRoom(t, TRUE)
    /\ flagFetches < MaxInFlight
    /\ TagsRoom(TRUE, tagsLoaded)
    /\ isOpen' = TRUE
    /\ task' = t
    /\ LoadEffect(t, TRUE, taskIntelligenceEnabled)
    /\ fetchTaskIntelligenceSetting(TRUE)
    /\ loadTags(TRUE, tagsLoaded)
    /\ DocumentEffects(FALSE, TRUE)
    /\ saveOutcome' = "none"
    /\ toasts' = {}
    /\ proposed' = NoProposal
    /\ lastEvent' = << "open" >>
    /\ payload' = Null
    /\ mounted
    /\ UNCHANGED << mounted, deleteVars, priorityVars >>
    /\ UNCHANGED << taskIntelligenceEnabled, isClosing, closeTimers, tagsLoaded,
                    localAvailableTags >>

\* The surrounding UI sets isOpen to false (its reaction to onClose, or its own
\* decision): the render after it runs the effects that depend on isOpen.
SessionCloses ==
    /\ isOpen' = FALSE
    /\ IF isOpen
       THEN LoadEffect(task, FALSE, taskIntelligenceEnabled)
            /\ fetchTaskIntelligenceSetting(FALSE)
            /\ DocumentEffects(TRUE, FALSE)
       ELSE UNCHANGED << formData, tags, taskAnalysis, parentTask, parentTaskLoading,
                         parentFetches, flagFetches, domVars >>

CloseSession ==
    /\ isOpen
    /\ SessionCloses
    /\ lastEvent' = << "close" >>
    /\ payload' = Null
    /\ mounted
    /\ UNCHANGED << mounted, deleteVars, priorityVars >>
    /\ UNCHANGED << task, taskIntelligenceEnabled, isClosing,
                    closeTimers, saveOutcome, toasts, proposed, tagLoadVars >>

\* The surrounding UI passes another projects array (a new array is another
\* dependency value, whatever it holds): the load effect runs again.
ProjectsChange ==
    /\ LoadRoom(task, isOpen)
    /\ LoadEffect(task, isOpen, taskIntelligenceEnabled)
    /\ lastEvent' = << "projects" >>
    /\ payload' = Null
    /\ mounted
    /\ UNCHANGED << mounted, domVars, deleteVars, priorityVars >>
    /\ UNCHANGED << isOpen, task, taskIntelligenceEnabled, isClosing,
                    flagFetches, closeTimers, saveOutcome, toasts, proposed, tagLoadVars >>

\* The persistence layer settles the save that onSave started.
SaveSettles(outcome) ==
    /\ saveOutcome = "pending"
    /\ saveOutcome' = outcome
    /\ lastEvent' = << "saveSettles" >>
    /\ payload' = Null
    /\ mounted
    /\ UNCHANGED << mounted, domVars, deleteVars, priorityVars >>
    /\ UNCHANGED << isOpen, task, formData, parentTask,
                    parentTaskLoading, taskIntelligenceEnabled, isClosing, parentFetches,
                    flagFetches, closeTimers, toasts, proposed, tags, taskAnalysis,
                    tagLoadVars >>

\* ------------------------------------------------------------------ continuations
\* Mutant of ParentFetchSucceeds: the finally branch is lost.
ParentFetchSucceedsNoFinally(i) ==
    /\ i \in 1..Len(parentFetches)
    /\ parentTask' = ParentFetched(parentFetches[i])
    /\ parentFetches' = Remove(parentFetches, i)
    /\ lastEvent' = << "parentFetched" >>
    /\ payload' = Null
    /\ mounted
    /\ UNCHANGED << mounted, domVars, deleteVars, priorityVars >>
    /\ UNCHANGED << isOpen, task, formData, parentTaskLoading,
                    taskIntelligenceEnabled, isClosing, flagFetches, closeTimers,
                    saveOutcome, toasts, proposed, tags, taskAnalysis, tagLoadVars >>

\* fetchTaskById resolved for the i-th request in flight: the try branch, then
\* finally.
ParentFetchSucceeds(i) ==
    /\ i \in 1..Len(parentFetches)
    /\ parentTask' = ParentFetched(parentFetches[i])
    /\ parentTaskLoading' = FALSE
    /\ parentFetches' = Remove(parentFetches, i)
    /\ lastEvent' = << "parentFetched" >>
    /\ payload' = Null
    /\ mounted
    /\ UNCHANGED << mounted, domVars, deleteVars, priorityVars >>
    /\ UNCHANGED << isOpen, task, formData,
                    taskIntelligenceEnabled, isClosing, flagFetches, closeTimers,
                    saveOutcome, toasts, proposed, tags, taskAnalysis, tagLoadVars >>

\* fetchTaskById rejected (NotFound, NetworkError): the catch branch, then finally.
ParentFetchFails(i) ==
    /\ i \in 1..Len(parentFetches)
    /\ parentTask' = ParentFetchError
    /\ parentTaskLoading' = FALSE
    /\ parentFetches' = Remove(parentFetches, i)
    /\ lastEvent' = << "parentFetchError", "console.error" >>
    /\ payload' = Null
    /\ mounted
    /\ UNCHANGED << mounted, domVars, deleteVars, priorityVars >>
    /\ UNCHANGED << isOpen, task, formData,
                    taskIntelligenceEnabled, isClosing, flagFetches, closeTimers,
                    saveOutcome, toasts, proposed, tags, taskAnalysis, tagLoadVars >>

\* setTaskIntelligenceEnabled(v), and the render after it: the load effect runs
\* again when the value changed.
FlagSettles(v) ==
    /\ flagFetches > 0
    /\ flagFetches' = flagFetches - 1
    /\ taskIntelligenceEnabled' = v
    /\ IF v # taskIntelligenceEnabled
       THEN LoadRoom(task, isOpen) /\ LoadEffect(task, isOpen, v)
       ELSE UNCHANGED << formData, tags, taskAnalysis, parentTask, parentTaskLoading,
                         parentFetches >>
    /\ UNCHANGED << isOpen, task, isClosing, closeTimers,
                    saveOutcome, toasts, proposed, tagLoadVars >>

\* getTaskIntelligenceEnabled resolved with `enabled`.
FlagFetchSucceeds(enabled) ==
    /\ FlagSettles(FlagFetched(enabled))
    /\ lastEvent' = << "flagFetched" >>
    /\ payload' = Null
    /\ mounted
    /\ UNCHANGED << mounted, domVars, deleteVars, priorityVars >>

\* getTaskIntelligenceEnabled rejected: the catch branch.
FlagFetchFails ==
    /\ FlagSettles(FlagFetchError)
    /\ lastEvent' = << "flagFetchError", "console.error" >>
    /\ payload' = Null
    /\ mounted
    /\ UNCHANGED << mounted, domVars, deleteVars, priorityVars >>

\* fetchTags resolved: the try branch of loadTags.
TagsFetchSucceeds(fetchedTags) ==
    /\ tagFetches > 0
    /\ tagFetches' = tagFetches - 1
    /\ localAvailableTags' = safeTagsArray(fetchedTags)
    /\ tagsLoaded' = TRUE
    /\ lastEvent' = << "tagsFetched" >>
    /\ payload' = Null
    /\ mounted
    /\ UNCHANGED << mounted, domVars, deleteVars, priorityVars >>
    /\ UNCHANGED << isOpen, task, formData, parentTask, parentTaskLoading,
                    taskIntelligenceEnabled, isClosing, tags, taskAnalysis, parentFetches,
                    flagFetches, closeTimers, saveOutcome, toasts, proposed >>

\* Mutant of TagsFetchFails: the failure is reported and the tags stay unloaded.
TagsFetchFailsReported ==
    /\ tagFetches > 0
    /\ tagFetches' = tagFetches - 1
    /\ toasts' = toasts \cup {"error"}
    /\ lastEvent' = << "tagsFetchError", "console.error", "showErrorToast" >>
    /\ payload' = Null
    /\ mounted
    /\ UNCHANGED << mounted, domVars, deleteVars, priorityVars >>
    /\ UNCHANGED << isOpen, task, formData, parentTask, parentTaskLoading,
                    taskIntelligenceEnabled, isClosing, tags, taskAnalysis, parentFetches,
                    flagFetches, closeTimers, saveOutcome, proposed, tagsLoaded,
                    localAvailableTags >>

\* fetchTags rejected: the catch branch of loadTags.
TagsFetchFails ==
    /\ tagFetches > 0
    /\ tagFetches' = tagFetches - 1
    /\ localAvailableTags' = << >>
    /\ tagsLoaded' = TRUE
    /\ lastEvent' = << "tagsFetchError", "console.error" >>
    /\ payload' = Null
    /\ mounted
    /\ UNCHANGED << mounted, domVars, deleteVars, priorityVars >>
    /\ UNCHANGED << isOpen, task, formData, parentTask, parentTaskLoading,
                    taskIntelligenceEnabled, isClosing, tags, taskAnalysis, parentFetches,
                    flagFetches, closeTimers, saveOutcome, toasts, proposed >>

\* ------------------------------------------------------------------ events
\* TaskRecurrenceSection calls onParentRecurrenceChange, once or more in one event;
\* the prop is passed only while parentTask is set.
handleParentRecurrenceChange(es) ==
    /\ isOpen
    /\ onParentRecurrenceChange(parentTask)
    /\ parentTask' = ParentSnapshots(parentTask, es)
    /\ formData' = ParentEditForms(formData, es)
    /\ proposed' = Propose(proposed, es)
    /\ lastEvent' = << "handleParentRecurrenceChange" >>
    /\ payload' = Null
    /\ mounted
    /\ UNCHANGED << mounted, domVars, deleteVars, priorityVars >>
    /\ UNCHANGED << isOpen, task, parentTaskLoading,
                    taskIntelligenceEnabled, isClosing, parentFetches, flagFetches,
                    closeTimers, saveOutcome, toasts, tags, taskAnalysis, tagLoadVars >>

\* TaskRecurrenceSection calls onRecurrenceChange.
handleRecurrenceChange(e) ==
    /\ isOpen
    /\ formData' = RecurrenceEditForm(formData, e)
    /\ proposed' = [proposed EXCEPT ![e.field] = Null]
    /\ lastEvent' = << "handleRecurrenceChange" >>
    /\ payload' = Null
    /\ mounted
    /\ UNCHANGED << mounted, domVars, deleteVars, priorityVars >>
    /\ UNCHANGED << isOpen, task, parentTask,
                    parentTaskLoading, taskIntelligenceEnabled, isClosing, parentFetches,
                    flagFetches, closeTimers, saveOutcome, toasts, tags, taskAnalysis,
                    tagLoadVars >>

\* The title input changes.
handleChange(value) ==
    /\ isOpen
    /\ formData' = ChangeForm(formData, value)
    /\ taskAnalysis' = ChangeAnalysis(taskAnalysis, value, taskIntelligenceEnabled)
    /\ lastEvent' = << "handleChange" >>
    /\ payload' = Null
    /\ mounted
    /\ UNCHANGED << mounted, domVars, deleteVars, priorityVars >>
    /\ UNCHANGED << isOpen, task, parentTask,
                    parentTaskLoading, taskIntelligenceEnabled, isClosing, parentFetches,
                    flagFetches, closeTimers, saveOutcome, toasts, proposed, tags,
                    tagLoadVars >>

\* TaskTagsSection calls onTagsChange.
handleTagsChange(newTags) ==
    /\ isOpen
    /\ tags' = newTags
    /\ formData' = TagsChangeForm(formData, newTags)
    /\ lastEvent' = << "handleTagsChange" >>
    /\ payload' = Null
    /\ mounted
    /\ UNCHANGED << mounted, domVars, deleteVars, priorityVars >>
    /\ UNCHANGED << isOpen, task, parentTask,
                    parentTaskLoading, taskIntelligenceEnabled, isClosing, parentFetches,
                    flagFetches, closeTimers, saveOutcome, toasts, proposed, taskAnalysis,
                    tagLoadVars >>

\* handleClose: the closing animation starts and the 300 ms timer is set.
handleClose ==
    /\ isClosing' = TRUE
    /\ closeTimers' = closeTimers + 1

\* The Save button. onSave either returns (the save it started settles later) or
\* throws, and then the rest of the handler does not run.
handleSubmit(thrown) ==
    /\ isOpen
    /\ closeTimers < MaxTimers
    /\ payload' = Some(SubmitPayload(formData, tags))
    /\ mounted
    /\ UNCHANGED << mounted, domVars, deleteVars, priorityVars >>
    /\ IF thrown = "returns"
       THEN /\ saveOutcome' = "pending"
            /\ toasts' = SubmitToasts(toasts)
            /\ handleClose
            /\ lastEvent' = << "handleSubmit", "onSave", "showSuccessToast", "handleClose" >>
       ELSE /\ saveOutcome' = thrown
            /\ lastEvent' = << "handleSubmit", "onSave" >>
            /\ UNCHANGED << toasts, isClosing, closeTimers >>
    /\ UNCHANGED << isOpen, task, formData, parentTask,
                    parentTaskLoading, taskIntelligenceEnabled, parentFetches,
                    flagFetches, proposed, tags, taskAnalysis, tagLoadVars >>

\* Cancel, Escape or a click outside the modal.
CloseRequested ==
    /\ isOpen
    /\ closeTimers < MaxTimers
    /\ handleClose
    /\ lastEvent' = << "handleClose" >>
    /\ payload' = Null
    /\ mounted
    /\ UNCHANGED << mounted, domVars, deleteVars, priorityVars >>
    /\ UNCHANGED << isOpen, task, formData, parentTask,
                    parentTaskLoading, taskIntelligenceEnabled, parentFetches,
                    flagFetches, saveOutcome, toasts, proposed, tagLoadVars, tags,
                    taskAnalysis >>

\* The timer of handleClose fires: onClose(), on which the surrounding UI closes
\* the session, setIsClosing(false) and setTagsLoaded(false).
CloseTimerFires ==
    /\ closeTimers > 0
    /\ closeTimers' = closeTimers - 1
    /\ SessionCloses
    /\ isClosing' = FALSE
    /\ tagsLoaded' = FALSE
    /\ lastEvent' = << "closeTimer", "onClose" >>
    /\ payload' = Null
    /\ mounted
    /\ UNCHANGED << mounted, deleteVars, priorityVars >>
    /\ UNCHANGED << task, taskIntelligenceEnabled,
                    saveOutcome, toasts, proposed, localAvailableTags, tagFetches >>

\* The "edit parent" control of TaskRecurrenceSection, passed only while parentTask
\* is set; `provided` tells whether the surrounding UI passes the optional
\* onEditParentTask prop at this render. On onClose the surrounding UI closes the
\* session.
handleEditParent(provided) ==
    /\ isOpen
    /\ onEditParent(parentTask)
    /\ lastEvent' = << "handleEditParent" >> \o EditParentCalls(parentTask, provided)
    /\ payload' = Null
    /\ mounted
    /\ UNCHANGED << mounted, deleteVars, priorityVars >>
    /\ IF Has(EditParentCalls(parentTask, provided), "onClose")
       THEN SessionCloses
       ELSE UNCHANGED << isOpen, formData, tags, taskAnalysis, parentTask,
                         parentTaskLoading, parentFetches, flagFetches, domVars >>
    /\ UNCHANGED << task, taskIntelligenceEnabled, isClosing,
                    closeTimers, saveOutcome, toasts, proposed, tagLoadVars >>

\* The status control of TaskPrioritySection calls onStatusChange.
onStatusChange(value) ==
    /\ isOpen
    /\ mounted
    /\ formData' = StatusForm(formData, value)
    /\ lastEvent' = << "onStatusChange" >>
    /\ payload' = Null
    /\ UNCHANGED << isOpen, task, parentTask, parentTaskLoading,
                    taskIntelligenceEnabled, isClosing, parentFetches, flagFetches,
                    closeTimers, saveOutcome, toasts, proposed, tags, taskAnalysis,
                    tagLoadVars, mounted, domVars, deleteVars, priorityVars >>

\* A render of the open modal shows the priority control: getPriorityString is
\* called with the form's priority, p.
RenderPriority(p) ==
    /\ isOpen
    /\ mounted
    /\ priority' = Some(p)
    /\ priorityString' = Some(getPriorityString(p))
    /\ lastEvent' = << "render" >>
    /\ payload' = Null
    /\ UNCHANGED << isOpen, task, formData, parentTask, parentTaskLoading,
                    taskIntelligenceEnabled, isClosing, parentFetches, flagFetches,
                    closeTimers, saveOutcome, toasts, proposed, tags, taskAnalysis,
                    tagLoadVars, mounted, domVars, deleteVars >>

\* The Delete button.
handleDeleteClick ==
    /\ isOpen
    /\ mounted
    /\ showConfirmDialog' = TRUE
    /\ lastEvent' = << "handleDeleteClick" >>
    /\ payload' = Null
    /\ UNCHANGED << isOpen, task, formData, parentTask, parentTaskLoading,
                    taskIntelligenceEnabled, isClosing, parentFetches, flagFetches,
                    closeTimers, saveOutcome, toasts, proposed, tags, taskAnalysis,
                    tagLoadVars, mounted, domVars, deletes, priorityVars >>

\* The confirmation's Cancel: onCancel.
CancelDelete ==
    /\ isOpen
    /\ mounted
    /\ showConfirmDialog
    /\ showConfirmDialog' = FALSE
    /\ lastEvent' = << "onCancel" >>
    /\ payload' = Null
    /\ UNCHANGED << isOpen, task, formData, parentTask, parentTaskLoading,
                    taskIntelligenceEnabled, isClosing, parentFetches, flagFetches,
                    closeTimers, saveOutcome, toasts, proposed, tags, taskAnalysis,
                    tagLoadVars, mounted, domVars, deletes, priorityVars >>

\* The confirmation's Confirm: handleDeleteConfirm up to its await.
handleDeleteConfirm ==
    /\ isOpen
    /\ mounted
    /\ showConfirmDialog
    /\ IF formData.id # NewTaskId
       THEN /\ deletes < MaxInFlight
            /\ deletes' = deletes + 1
            /\ lastEvent' = << "handleDeleteConfirm", "onDelete" >>
       ELSE /\ UNCHANGED deletes
            /\ lastEvent' = << "handleDeleteConfirm" >>
    /\ payload' = Null
    /\ UNCHANGED << isOpen, task, formData, parentTask, parentTaskLoading,
                    taskIntelligenceEnabled, isClosing, parentFetches, flagFetches,
                    closeTimers, saveOutcome, toasts, proposed, tags, taskAnalysis,
                    tagLoadVars, mounted, domVars, showConfirmDialog, priorityVars >>

\* Mutant of DeleteFails: the failure closes the session as a success does.
DeleteFailsCloses ==
    /\ mounted
    /\ deletes > 0
    /\ closeTimers < MaxTimers
    /\ deletes' = deletes - 1
    /\ toasts' = toasts \cup {"error"}
    /\ showConfirmDialog' = FALSE
    /\ handleClose
    /\ lastEvent' = << "deleteError", "console.error", "showErrorToast", "handleClose" >>
    /\ payload' = Null
    /\ UNCHANGED << isOpen, task, formData, parentTask, parentTaskLoading,
                    taskIntelligenceEnabled, parentFetches, flagFetches,
                    saveOutcome, proposed, tags, taskAnalysis,
                    tagLoadVars, mounted, domVars, priorityVars >>

\* onDelete resolved: the rest of the try branch of handleDeleteConfirm.
DeleteSucceeds ==
    /\ mounted
    /\ deletes > 0
    /\ closeTimers < MaxTimers
    /\ deletes' = deletes - 1
    /\ toasts' = toasts \cup {"success"}
    /\ showConfirmDialog' = FALSE
    /\ handleClose
    /\ lastEvent' = << "deleted", "showSuccessToast", "handleClose" >>
    /\ payload' = Null
    /\ UNCHANGED << isOpen, task, formData, parentTask, parentTaskLoading,
                    taskIntelligenceEnabled, parentFetches, flagFetches,
                    saveOutcome, proposed, tags, taskAnalysis,
                    tagLoadVars, mounted, domVars, priorityVars >>

\* onDelete rejected: the catch branch of handleDeleteConfirm.
DeleteFails ==
    /\ mounted
    /\ deletes > 0
    /\ deletes' = deletes - 1
    /\ toasts' = toasts \cup {"error"}
    /\ lastEvent' = << "deleteError", "console.error", "showErrorToast" >>
    /\ payload' = Null
    /\ UNCHANGED << isOpen, task, formData, parentTask, parentTaskLoading,
                    taskIntelligenceEnabled, isClosing, parentFetches, flagFetches,
                    closeTimers, saveOutcome, proposed, tags, taskAnalysis,
                    tagLoadVars, mounted, domVars, showConfirmDialog, priorityVars >>

\* The surrounding UI removes the modal from the tree: the cleanups of its effects
\* run. What is still in flight finds no component to update.
Unmount ==
    /\ mounted
    /\ mounted' = FALSE
    /\ bodyOverflow' = CleanupOverflow
    /\ mousedownListeners' = ListenersAfter(mousedownListeners, isOpen, FALSE)
    /\ keydownListeners' = ListenersAfter(keydownListeners, isOpen, FALSE)
    /\ lastEvent' = << "unmount" >>
    /\ payload' = Null
    /\ UNCHANGED << isOpen, task, formData, parentTask, parentTaskLoading,
                    taskIntelligenceEnabled, isClosing, parentFetches, flagFetches,
                    closeTimers, saveOutcome, toasts, proposed, tags, taskAnalysis,
                    tagLoadVars, deleteVars, priorityVars >>

\* ------------------------------------------------------------------ specification
Next ==
    \/ \E t \in TaskIds : OpenSession(t)
    \/ CloseSession
    \/ ProjectsChange
    \/ \E outcome \in {"saved", "ValidationError", "NetworkError"} : SaveSettles(outcome)
    \/ \E i \in 1..MaxInFlight : ParentFetchSucceeds(i)
    \/ \E i \in 1..MaxInFlight : ParentFetchFails(i)
    \/ \E enabled \in BOOLEAN : FlagFetchSucceeds(enabled)
    \/ FlagFetchFails
    \/ \E fetchedTags \in TagResults : TagsFetchSucceeds(fetchedTags)
    \/ TagsFetchFails
    \/ \E es \in Batches : handleParentRecurrenceChange(es)
    \/ \E e \in Edits : handleRecurrenceChange(e)
    \/ \E value \in Names : handleChange(value)
    \/ \E newTags \in TagLists : handleTagsChange(newTags)
    \/ \E thrown \in {"returns", "ValidationError", "NetworkError"} : handleSubmit(thrown)
    \/ CloseRequested
    \/ CloseTimerFires
    \/ \E provided \in BOOLEAN : handleEditParent(provided)
    \/ \E value \in Statuses : onStatusChange(value)
    \/ \E p \in Priorities : RenderPriority(p)
    \/ handleDeleteClick
    \/ CancelDelete
    \/ handleDeleteConfirm
    \/ DeleteSucceeds
    \/ DeleteFails
    \/ Unmount

Spec == Init /\ [][Next]_vars

\* The session's life cycle alone: opening, closing, the fetches and the timers,
\* with the form left as loaded.
NextLoad ==
    \/ \E t \in TaskIds : OpenSession(t)
    \/ CloseSession
    \/ ProjectsChange
    \/ \E i \in 1..MaxInFlight : ParentFetchSucceeds(i)
    \/ \E i \in 1..MaxInFlight : ParentFetchFails(i)
    \/ \E enabled \in BOOLEAN : FlagFetchSucceeds(enabled)
    \/ FlagFetchFails
    \/ \E fetchedTags \in TagResults : TagsFetchSucceeds(fetchedTags)
    \/ TagsFetchFails
    \/ CloseRequested
    \/ CloseTimerFires
    \/ \E provided \in BOOLEAN : handleEditParent(provided)

SpecLoad == Init /\ [][NextLoad]_vars

\* Editing and saving, in sessions on one generated instance and on its recurring
\* task, that end by the Save button.
EditTaskIds == {2, 3}

NextEdit ==
    \/ \E t \in EditTaskIds : OpenSession(t)
    \/ ProjectsChange
    \/ \E outcome \in {"saved", "ValidationError", "NetworkError"} : SaveSettles(outcome)
    \/ \E i \in 1..MaxInFlight : ParentFetchSucceeds(i)
    \/ \E enabled \in BOOLEAN : FlagFetchSucceeds(enabled)
    \/ \E es \in Batches : handleParentRecurrenceChange(es)
    \/ \E e \in Edits : handleRecurrenceChange(e)
    \/ \E value \in Names : handleChange(value)
    \/ \E thrown \in {"returns", "ValidationError", "NetworkError"} : handleSubmit(thrown)
    \/ CloseTimerFires

SpecEdit == Init /\ [][NextEdit]_vars

\* The title and its suggestions: sessions on any task, the flag fetches and the
\* title input.
NextTitle ==
    \/ \E t \in TaskIds : OpenSession(t)
    \/ CloseSession
    \/ ProjectsChange
    \/ \E i \in 1..MaxInFlight : ParentFetchSucceeds(i)
    \/ \E enabled \in BOOLEAN : FlagFetchSucceeds(enabled)
    \/ FlagFetchFails
    \/ TagsFetchFails
    \/ \E value \in Names : handleChange(value)
    \/ CloseTimerFires
    \/ CloseRequested

SpecTitle == Init /\ [][NextTitle]_vars

\* The parent dimension of editing: sessions on a generated instance and on its
\* recurring task, the parent fetch, the recurrence controls and the Save button.
NextParent ==
    \/ \E t \in EditTaskIds : OpenSession(t)
    \/ \E i \in 1..MaxInFlight : ParentFetchSucceeds(i)
    \/ \E i \in 1..MaxInFlight : ParentFetchFails(i)
    \/ TagsFetchFails
    \/ \E es \in Batches : handleParentRecurrenceChange(es)
    \/ \E e \in Edits : handleRecurrenceChange(e)
    \/ \E thrown \in {"returns", "NetworkError"} : handleSubmit(thrown)
    \/ CloseTimerFires
    \/ \E provided \in BOOLEAN : handleEditParent(provided)

SpecParent == Init /\ [][NextParent]_vars

\* The tag input and the Save button, in sessions on any task.
NextTags ==
    \/ \E t \in TaskIds : OpenSession(t)
    \/ ProjectsChange
    \/ \E fetchedTags \in TagResults : TagsFetchSucceeds(fetchedTags)
    \/ TagsFetchFails
    \/ \E value \in Names : handleChange(value)
    \/ \E newTags \in TagLists : handleTagsChange(newTags)
    \/ \E thrown \in {"returns", "NetworkError"} : handleSubmit(thrown)
    \/ CloseTimerFires

SpecTags == Init /\ [][NextTags]_vars

\* The ways out of a session: the close requests, Save, Delete and the parent
\* link, in sessions on a new task, a generated instance and a recurring task.
ExitTaskIds == {NewTaskId, 2, 3}

NextExit ==
    \/ \E t \in ExitTaskIds : OpenSession(t)
    \/ \E i \in 1..MaxInFlight : ParentFetchSucceeds(i)
    \/ \E fetchedTags \in TagResults : TagsFetchSucceeds(fetchedTags)
    \/ TagsFetchFails
    \/ \E thrown \in {"returns"} : handleSubmit(thrown)
    \/ CloseRequested
    \/ CloseTimerFires
    \/ \E provided \in BOOLEAN : handleEditParent(provided)
    \/ handleDeleteClick
    \/ CancelDelete
    \/ handleDeleteConfirm
    \/ DeleteSucceeds
    \/ DeleteFails
    \/ Unmount

SpecExit == Init /\ [][NextExit]_vars

\* The status control, next to the title input and the Save button.
NextStatus ==
    \/ \E t \in TaskIds : OpenSession(t)
    \/ TagsFetchFails
    \/ \E value \in Statuses : onStatusChange(value)
    \/ \E value \in Names : handleChange(value)
    \/ \E thrown \in {"returns"} : handleSubmit(thrown)
    \/ CloseTimerFires

SpecStatus == Init /\ [][NextStatus]_vars

\* The close requests alone: Cancel, Escape and outside clicks, Save and a
\* confirmed Delete, each of which ends in handleClose.
NextClose ==
    \/ \E t \in ExitTaskIds : OpenSession(t)
    \/ TagsFetchFails
    \/ \E thrown \in {"returns"} : handleSubmit(thrown)
    \/ CloseRequested
    \/ CloseTimerFires
    \/ handleDeleteClick
    \/ handleDeleteConfirm
    \/ DeleteSucceeds

SpecClose == Init /\ [][NextClose]_vars

\* The priority control of an open modal, for every priority a form can hold.
NextPriority ==
    \/ \E t \in TaskIds : OpenSession(t)
    \/ CloseSession
    \/ \E p \in Priorities : RenderPriority(p)

SpecPriority == Init /\ [][NextPriority]_vars

\* ------------------------------------------------------------------ properties
\* C1: when handleSubmit calls onSave, the payload has update_parent_recurrence =
\* true and, for every field last edited through handleParentRecurrenceChange in
\* this session, the value of that edit.
C1_ProposedEditsInPayload ==
    payload # Null =>
        \A f \in RecFields :
            proposed[f] # Null =>
                /\ payload[1].update_parent_recurrence
                /\ payload[1][f] = proposed[f][1]

\* C2: a completion of fetchTaskById that arrives while the session is closed is
\* discarded: parentTask stays null and parentTaskLoading keeps its value.
C2_ClosedDiscardsParentFetch ==
    [][ (~isOpen /\ Len(parentFetches') < Len(parentFetches)) =>
            (parentTask' = Null /\ parentTaskLoading' = parentTaskLoading) ]_vars

\* C3: in an open session with a loaded parent, parentTask and formData hold the
\* same value in every field edited through handleParentRecurrenceChange.
C3_SnapshotAndPayloadAgree ==
    (isOpen /\ parentTask # Null) =>
        \A f \in RecFields : proposed[f] # Null => parentTask[1][f] = formData[f]

\* C4: when the save started by handleSubmit fails with a ValidationError, an error
\* message is shown, no success message is shown, and the session stays open.
C4_ValidationErrorSurfaced ==
    saveOutcome = "ValidationError" =>
        /\ "error" \in toasts
        /\ "success" \notin toasts
        /\ isOpen /\ ~isClosing /\ closeTimers = 0

\* C5 as stated: handleEditParent calls onClose before onEditParentTask.
C5_CloseBeforeEditParent ==
    \A j \in 1..Len(lastEvent) :
        lastEvent[j] = "onEditParentTask" => \E i \in 1..(j - 1) : lastEvent[i] = "onClose"

\* C5 as amended: handleEditParent calls onEditParentTask first and onClose after
\* it, both in the same turn, and the session is closed after that turn.
C5_EditParentBeforeClose ==
    \A j \in 1..Len(lastEvent) :
        lastEvent[j] = "onEditParentTask" =>
            /\ \E i \in (j + 1)..Len(lastEvent) : lastEvent[i] = "onClose"
            /\ \A i \in 1..(j - 1) : lastEvent[i] # "onClose"
            /\ ~isOpen

C5_Witness == lastEvent = << "handleEditParent", "onEditParentTask", "onClose" >>

\* C6: while the session is (or becomes) open on a task without
\* recurring_parent_id, no turn issues fetchTaskById or sets parentTaskLoading to
\* true, and the turn that opens the session leaves parentTask null.
C6_NoParentNoFetch ==
    [][ (isOpen' /\ recurring_parent_id(task') = 0) =>
            /\ Len(parentFetches') <= Len(parentFetches)
            /\ (parentTaskLoading' => parentTaskLoading)
            /\ (~isOpen => parentTask' = Null) ]_vars

C6_Witness ==
    /\ lastEvent = << "open" >>
    /\ recurring_parent_id(task) = 0
    /\ parentTask = Null
    /\ ~parentTaskLoading
    /\ parentFetches = << >>

\* C7: opening a session on a task with recurring_parent_id = P sets
\* parentTaskLoading and issues fetchTaskById(P); when a fetch of P succeeds while
\* the session is open on that task, parentTask is the task with id P and
\* parentTaskLoading is false.
C7_ParentLoads ==
    [][ /\ (~isOpen /\ isOpen' /\ recurring_parent_id(task') # 0) =>
              /\ parentTaskLoading'
              /\ parentFetches' = Append(parentFetches, recurring_parent_id(task'))
        /\ \A i \in 1..Len(parentFetches) :
              ( /\ isOpen
                /\ lastEvent' = << "parentFetched" >>
                /\ parentFetches[i] = recurring_parent_id(task)
                /\ parentFetches' = Remove(parentFetches, i) ) =>
                    /\ isOpen'
                    /\ parentTask' = Some(Task(recurring_parent_id(task)))
                    /\ ~parentTaskLoading' ]_vars

C7_Witness ==
    /\ isOpen
    /\ lastEvent = << "parentFetched" >>
    /\ recurring_parent_id(task) # 0
    /\ parentTask = Some(Task(recurring_parent_id(task)))
    /\ ~parentTaskLoading

\* C8: when fetchTaskById fails in an open session, the session stays open with
\* parentTask null and parentTaskLoading false; the error is logged and no toast is
\* shown.
C8_ParentFetchFailure ==
    [][ (isOpen /\ lastEvent'[1] = "parentFetchError") =>
            /\ isOpen'
            /\ parentTask' = Null
            /\ ~parentTaskLoading'
            /\ lastEvent' = << "parentFetchError", "console.error" >>
            /\ toasts' = toasts ]_vars

C8_Witness ==
    /\ isOpen
    /\ lastEvent[1] = "parentFetchError"
    /\ recurring_parent_id(task) # 0
    /\ parentTask = Null
    /\ ~parentTaskLoading

\* C9: a completion of getTaskIntelligenceEnabled that arrives while the session
\* is closed leaves taskIntelligenceEnabled as it was.
C9_ClosedDiscardsFlagFetch ==
    [][ (~isOpen /\ flagFetches' < flagFetches) =>
            taskIntelligenceEnabled' = taskIntelligenceEnabled ]_vars

\* C10: when getTaskIntelligenceEnabled fails in an open session,
\* taskIntelligenceEnabled is true afterwards, the session stays open and no toast
\* is shown.
C10_FlagFailureEnables ==
    [][ (isOpen /\ lastEvent'[1] = "flagFetchError") =>
            /\ taskIntelligenceEnabled'
            /\ isOpen'
            /\ lastEvent' = << "flagFetchError", "console.error" >>
            /\ toasts' = toasts ]_vars

C10_Witness ==
    /\ isOpen
    /\ lastEvent[1] = "flagFetchError"
    /\ taskIntelligenceEnabled

\* C11: within one editing session, with the task and projects props unchanged, no
\* event other than the opening issues fetchTaskById: neither the flag fetch's
\* result nor the parent fetch's own result starts another parent fetch.
C11_ParentFetchedOncePerSession ==
    [][(isOpen /\ isOpen' /\ lastEvent' # << "projects" >>)
          => Len(parentFetches') <= Len(parentFetches)]_vars

\* C12: in every state of an open session in which taskIntelligenceEnabled is
\* false, taskAnalysis is null: after title edits, and after the flag resolved to
\* false with a suggestion on display.
C12_DisabledNoSuggestion ==
    (isOpen /\ ~taskIntelligenceEnabled) => taskAnalysis = Null

\* A title edit in a session with the flag off, on a title that has suggestions.
C12_Witness ==
    /\ isOpen
    /\ ~taskIntelligenceEnabled
    /\ lastEvent = << "handleChange" >>
    /\ formData.name = "b"
    /\ analyzeTaskName(formData.name).suggestions # {}
    /\ taskAnalysis = Null

\* C13: with a parent loaded, an event that is a single
\* handleParentRecurrenceChange('recurrence_type', v) leaves parentTask and formData
\* both holding recurrence_type = v and issues no save in its turn: both hold v in
\* the state any later onSave starts from.
C13_ParentEditUpdatesBoth ==
    [][\A v \in FieldValues("recurrence_type") :
          (parentTask # Null
           /\ handleParentRecurrenceChange(<< [field |-> "recurrence_type", value |-> v] >>))
          => /\ parentTask' # Null
             /\ parentTask'[1].recurrence_type = v
             /\ formData'.recurrence_type = v
             /\ payload' = Null
             /\ ~Has(lastEvent', "onSave")
             /\ saveOutcome' = saveOutcome]_vars

\* A parent edit to 'weekly', a value neither the task nor its parent was loaded
\* with, before any save of the session.
C13_Witness ==
    /\ isOpen
    /\ lastEvent = << "handleParentRecurrenceChange" >>
    /\ parentTask # Null
    /\ parentTask[1].recurrence_type = "weekly"
    /\ formData.recurrence_type = "weekly"
    /\ Task(task).recurrence_type # "weekly"
    /\ Task(recurring_parent_id(task)).recurrence_type # "weekly"
    /\ saveOutcome = "none"

\* C14: the payload handleSubmit passes to onSave has every field of the formData
\* it was called with, with formData's value for every field but tags, and its tags
\* are the tag-name list 'tags' mapped to {name}: same length, same order, same
\* multiplicity.
C14_PayloadIsFormWithTags ==
    payload # Null =>
        /\ DOMAIN payload[1] = DOMAIN formData
        /\ \A f \in DOMAIN formData \ {"tags"} : payload[1][f] = formData[f]
        /\ Len(payload[1].tags) = Len(tags)
        /\ \A i \in 1..Len(tags) : payload[1].tags[i] = [name |-> tags[i]]

\* A save of a tag list that names one tag twice, after a title edit.
C14_Witness ==
    /\ payload # Null
    /\ Len(tags) = 2
    /\ tags[1] = tags[2]
    /\ payload[1].tags = << [name |-> tags[1]], [name |-> tags[1]] >>
    /\ payload[1].name = "b"

\* C15: a handleParentRecurrenceChange turn issues no persistence call; a
\* handleSubmit turn calls onSave exactly once, with the payload of the edited task
\* (its id is the task's, not the parent's) and leaves the parent snapshot alone;
\* no other turn calls onSave.
C15_OnlyChildSaved ==
    [][/\ lastEvent'[1] = "handleParentRecurrenceChange"
            => (payload' = Null /\ Calls(lastEvent', "onSave") = 0
                /\ saveOutcome' = saveOutcome /\ parentFetches' = parentFetches)
       /\ lastEvent'[1] = "handleSubmit"
            => /\ Calls(lastEvent', "onSave") = 1
               /\ payload' # Null
               /\ payload'[1].id = task
               /\ payload'[1].id # recurring_parent_id(task)
               /\ parentTask' = parentTask
       /\ lastEvent'[1] # "handleSubmit"
            => (payload' = Null /\ Calls(lastEvent', "onSave") = 0)]_vars

\* A save in a session whose parent snapshot was edited: the payload is the
\* generated instance's.
C15_Witness ==
    /\ lastEvent[1] = "handleSubmit"
    /\ payload # Null
    /\ parentTask # Null
    /\ parentTask[1].recurrence_type = "weekly"
    /\ parentTask[1].id = recurring_parent_id(task)
    /\ payload[1].id = task
    /\ payload[1].update_parent_recurrence

\* C16: in every state with parentTask = null the onEditParent and
\* onParentRecurrenceChange props are undefined, so no handleEditParent or
\* handleParentRecurrenceChange turn starts there; and handleEditParent calls
\* neither onEditParentTask nor onClose when parentTask is null or onEditParentTask
\* is not provided: the session stays open.
C16_ParentControlsNeedParent ==
    [][/\ parentTask = Null
            => (~onEditParent(parentTask) /\ ~onParentRecurrenceChange(parentTask))
       /\ lastEvent'[1] \in {"handleEditParent", "handleParentRecurrenceChange"}
            => parentTask # Null
       /\ \A provided \in BOOLEAN : EditParentCalls(Null, provided) = << >>
       /\ handleEditParent(FALSE)
            => (lastEvent' = << "handleEditParent" >> /\ isOpen' /\ parentTask' = parentTask)]_vars

\* An open session whose parent is still loading: no parent control is passed.
C16_Witness ==
    /\ isOpen
    /\ recurring_parent_id(task) # 0
    /\ parentTaskLoading
    /\ parentTask = Null
    /\ ~onEditParent(parentTask)
    /\ ~onParentRecurrenceChange(parentTask)

\* C17: when fetchTags fails in an open session, the turn sets the available tags
\* to the empty list and tagsLoaded to true, shows nothing to the user, throws
\* nothing and leaves the session open; and while a session stays open with
\* tagsLoaded true, tagsLoaded stays true and no fetchTags is issued.
C17_TagsFailureSwallowed ==
    [][/\ (isOpen /\ lastEvent'[1] = "tagsFetchError")
            => /\ localAvailableTags' = << >>
               /\ tagsLoaded'
               /\ toasts' = toasts
               /\ lastEvent' = << "tagsFetchError", "console.error" >>
               /\ isOpen'
               /\ tagFetches' = tagFetches - 1
       /\ (isOpen /\ tagsLoaded /\ isOpen')
            => (tagsLoaded' /\ tagFetches' <= tagFetches)]_vars

\* fetchTags has just failed in an open session that has no other fetchTags in
\* flight.
C17_Witness ==
    /\ isOpen
    /\ lastEvent[1] = "tagsFetchError"
    /\ tagsLoaded
    /\ localAvailableTags = << >>
    /\ tagFetches = 0
    /\ toasts = {}

\* C18: a turn that takes the session from closed to open issues exactly one
\* getTaskIntelligenceEnabled call; no other turn issues one, whether the session
\* is open or closed.
C18_FlagFetchedOncePerSession ==
    [][/\ (~isOpen /\ isOpen') => flagFetches' = flagFetches + 1
       /\ ~(~isOpen /\ isOpen') => flagFetches' <= flagFetches]_vars

\* A session opened while the flag fetch of the session before it is still in
\* flight: its own fetch is the second one.
C18_Witness ==
    /\ isOpen
    /\ lastEvent = << "open" >>
    /\ flagFetches = 2

\* C19: while a session is open on a task without recurring_parent_id, parentTask
\* is null and parentTaskLoading is false.
C19_NoParentIsTerminal ==
    (isOpen /\ recurring_parent_id(task) = 0)
        => (parentTask = Null /\ ~parentTaskLoading)

\* C21: whenever a session opens, tagsLoaded is false and the opening turn issues
\* a fetchTags, whichever way the session before it ended and whenever its
\* fetchTags completed.
C21_TagsReloadedNextSession ==
    [][(~isOpen /\ isOpen') => (~tagsLoaded /\ tagFetches' = tagFetches + 1)]_vars

\* C22: while the modal is mounted and open, document.body's overflow is 'hidden'
\* and the modal's mousedown and keydown listeners are registered, once each; in
\* every other state (closed by any exit path, or unmounted) the overflow is
\* 'unset' and no listener of the modal is registered.
C22_ScrollLockScoped ==
    IF mounted /\ isOpen
    THEN bodyOverflow = "hidden" /\ mousedownListeners = 1 /\ keydownListeners = 1
    ELSE bodyOverflow = "unset" /\ mousedownListeners = 0 /\ keydownListeners = 0

\* The modal was unmounted while its session was open.
C22_Witness ==
    /\ ~mounted
    /\ isOpen
    /\ lastEvent = << "unmount" >>
    /\ bodyOverflow = "unset"
    /\ mousedownListeners = 0

\* C23: handleDeleteConfirm calls onDelete only when formData.id is set. When
\* onDelete fails, the turn shows the error toast and no success toast, calls no
\* handleClose and leaves the session and the confirmation as they are. When it
\* succeeds, the turn shows the success toast, hides the confirmation and calls
\* handleClose, whose timer closes the session.
C23_DeleteRecoverable ==
    [][/\ lastEvent'[1] = "handleDeleteConfirm"
            => /\ Has(lastEvent', "onDelete") = (formData.id # NewTaskId)
               /\ deletes' = deletes + (IF formData.id # NewTaskId THEN 1 ELSE 0)
               /\ toasts' = toasts /\ isOpen' /\ closeTimers' = closeTimers
       /\ lastEvent'[1] = "deleteError"
            => /\ toasts' = toasts \cup {"error"}
               /\ ~Has(lastEvent', "showSuccessToast")
               /\ ~Has(lastEvent', "handleClose")
               /\ isOpen' = isOpen
               /\ isClosing' = isClosing
               /\ closeTimers' = closeTimers
               /\ showConfirmDialog' = showConfirmDialog
       /\ lastEvent'[1] = "deleted"
            => /\ toasts' = toasts \cup {"success"}
               /\ ~showConfirmDialog'
               /\ Has(lastEvent', "handleClose")
               /\ isClosing'
               /\ closeTimers' = closeTimers + 1
       /\ lastEvent'[1] = "closeTimer" => ~isOpen']_vars

\* onDelete has just failed in an open session: the confirmation is still shown,
\* the error toast is the only toast and nothing is closing.
C23_Witness ==
    /\ isOpen
    /\ lastEvent[1] = "deleteError"
    /\ showConfirmDialog
    /\ toasts = {"error"}
    /\ ~isClosing
    /\ closeTimers = 0

\* C24: an onStatusChange(value) turn sets formData.status to value; with value
\* 'in_progress' it also sets formData.today to true, with any other value it
\* leaves today as it was; no other field of formData changes.
C24_InProgressMeansToday ==
    [][\A value \in Statuses :
          onStatusChange(value)
          => /\ formData'.status = value
             /\ formData'.today = (IF value = "in_progress" THEN TRUE ELSE formData.today)
             /\ \A f \in DOMAIN formData \ {"status", "today"} : formData'[f] = formData[f]]_vars

\* A task put on today by 'in_progress' stays on today when its status moves on.
C24_Witness ==
    /\ isOpen
    /\ lastEvent = << "onStatusChange" >>
    /\ formData.status = "done"
    /\ formData.today
    /\ ~Task(task).today

\* C25: in an open session with no fetchTaskById in flight, a parentTask that is
\* set is the parent of the current task, and parentTask is null when the current
\* task has no recurring_parent_id.
C25_ParentMatchesTask ==
    (isOpen /\ parentFetches = << >>)
        => /\ parentTask # Null => parentTask[1].id = recurring_parent_id(task)
           /\ recurring_parent_id(task) = 0 => parentTask = Null

\* C26: in an open session, the turn in which getTaskIntelligenceEnabled resolves
\* or fails leaves formData, tags and the parent snapshot as they were.
C26_FlagResultKeepsEdits ==
    [][(isOpen /\ lastEvent'[1] \in {"flagFetched", "flagFetchError"})
          => (formData' = formData /\ tags' = tags /\ parentTask' = parentTask)]_vars

\* C27: parentTaskLoading is true exactly in the states in which at least one
\* fetchTaskById issued by the modal has not completed.
C27_LoadingIffInFlight ==
    parentTaskLoading <=> (Len(parentFetches) > 0)

\* C28: onClose is invoked once per session: a turn that invokes onClose finds the
\* session still open (no onClose came before it for this session), and
\* isClosing is false after it.
C28_ClosedExactlyOnce ==
    [][Has(lastEvent', "onClose") => (isOpen /\ ~isClosing')]_vars

\* C29: a handleRecurrenceChange(field, value) turn sets formData[field] to value
\* and leaves every other field of formData, update_parent_recurrence among them,
\* and parentTask as they were; update_parent_recurrence goes from false to true
\* in handleParentRecurrenceChange turns only.
C29_PlainEditKeepsParent ==
    [][/\ \A e \in Edits :
            handleRecurrenceChange(e)
            => /\ formData'[e.field] = e.value
               /\ \A f \in DOMAIN formData \ {e.field} : formData'[f] = formData[f]
               /\ parentTask' = parentTask
       /\ (~formData.update_parent_recurrence /\ formData'.update_parent_recurrence)
            => lastEvent'[1] = "handleParentRecurrenceChange"]_vars

\* A plain recurrence edit in a session whose parent is loaded: the form differs
\* from the task, the parent is as fetched and is not marked for update.
C29_Witness ==
    /\ isOpen
    /\ lastEvent = << "handleRecurrenceChange" >>
    /\ parentTask = Some(Task(recurring_parent_id(task)))
    /\ recurring_parent_id(task) # 0
    /\ formData.recurrence_type = "weekly"
    /\ ~formData.update_parent_recurrence

\* C30: getPriorityString returns 'low', 'medium' or 'high': 'low', 'medium',
\* 'high' for the numbers 0, 1, 2, 'medium' for every other number and for
\* undefined, and a string priority itself.
C30_PriorityString ==
    priorityString # Null =>
        LET p == priority[1]
            r == priorityString[1]
        IN  /\ r \in {"low", "medium", "high"}
            /\ (p.type = "number" /\ p.num = 0) => r = "low"
            /\ (p.type = "number" /\ p.num = 1) => r = "medium"
            /\ (p.type = "number" /\ p.num = 2) => r = "high"
            /\ (p.type = "number" /\ (p.num < 0 \/ p.num > 2)) => r = "medium"
            /\ p.type = "undefined" => r = "medium"
            /\ p.type = "string" => r = p.str

\* The priority control was rendered for a negative number.
C30_Witness ==
    /\ isOpen
    /\ priority # Null
    /\ priority[1].type = "number"
    /\ priority[1].num < 0
    /\ priorityString = Some("medium")

====
